---- MODULE Spec2Model ----
(***************************************************************************)
(* Model of the project-record HTTP service (Fastify + MongoDB with an     *)
(* in-process cache): the cache object `projects`, the durable collection  *)
(* projectsDB.projects, the start-up sequence and the route handlers       *)
(* /p/all, /pp/:key, /br/:key and /p/update/:key.                          *)
(*                                                                         *)
(* JavaScript values are modelled as tagged records so that the language   *)
(* semantics the handlers depend on (truthiness, the `in` operator,        *)
(* property lookup through the prototype chain, object spread) are         *)
(* computed, not assumed.                                                  *)
(***************************************************************************)
EXTENDS Integers, Sequences, FiniteSets, TLC

(***************************************************************************)
(* Bounds                                                                  *)
(***************************************************************************)
\* number of POST /p/update requests that can be awaiting updateOne at once
MaxTasks == 2
\* number of POST /p/update requests accepted in one behaviour
MaxUpdates == 2

(***************************************************************************)
(* JavaScript values                                                       *)
(***************************************************************************)
Undefined == [t |-> "undefined"]
Null == [t |-> "null"]
Str(s) == [t |-> "string", s |-> s]
\* a plain object, as JSON.parse or an object literal creates it; f maps its
\* own enumerable property names to values; its prototype is Object.prototype
Obj(f) == [t |-> "object", f |-> f]
\* Object.prototype itself, and the function Object it holds as `constructor`
ObjectPrototype == [t |-> "prototype"]
ObjectCtor == [t |-> "function"]

NoFields == [n \in {} |-> Undefined]
EmptyObject == Obj(NoFields)

\* ToBoolean(v): the test of `if (v)` and `!v`
Truthy(v) ==
  CASE v.t = "undefined" -> FALSE
    [] v.t = "null" -> FALSE
    [] v.t = "string" -> v.s # ""
    [] OTHER -> TRUE

\* whether v is of type Object (anything but a primitive)
IsObject(v) == v.t \in {"object", "prototype", "function"}

\* own enumerable properties of a value
OwnFields(v) == IF v.t = "object" THEN v.f ELSE NoFields

\* v[name] for a name that is not a property of Object.prototype or of a
\* function or string (code, ip): own property or undefined
GetProp(v, name) ==
  IF name \in DOMAIN OwnFields(v) THEN OwnFields(v)[name] ELSE Undefined

\* `name in v` for such a name; a TypeError when v is a primitive
InThrows(v) == ~IsObject(v)
HasProp(v, name) == name \in DOMAIN OwnFields(v)

\* g's fields over f's: { ...f, ...g }
Merge(f, g) ==
  [n \in (DOMAIN f) \cup (DOMAIN g) |-> IF n \in DOMAIN g THEN g[n] ELSE f[n]]

\* f without the named fields: const { a, b, ...rest } = f
Without(f, names) == [n \in (DOMAIN f) \ names |-> f[n]]

\* { ...v }: own enumerable properties; nothing for null and undefined, the
\* indexed characters for a string
Spread(v) ==
  CASE v.t = "object" -> v.f
    [] v.t = "string" ->
         [n \in {"0"} \cap (IF v.s = "" THEN {} ELSE {"0"}) |-> Str(v.s)]
    [] OTHER -> NoFields

\* what JSON.stringify puts on the wire for a handler's return value: a
\* function has no JSON form (empty payload), Object.prototype prints as {}
Serialize(v) ==
  CASE v.t = "function" -> Undefined
    [] v.t = "prototype" -> EmptyObject
    [] OTHER -> v

(***************************************************************************)
(* The cache object `projects`: own properties plus its prototype          *)
(***************************************************************************)
\* a property of Object.prototype, read with receiver prototype `proto`;
\* __proto__ is an accessor that answers the receiver's prototype
BuiltinGet(proto, key) ==
  CASE key = "__proto__" -> proto
    [] key = "constructor" -> ObjectCtor
    [] OTHER -> Undefined

\* projects[key]
Lookup(own, proto, key) ==
  IF key \in DOMAIN own THEN own[key]
  ELSE CASE proto.t = "null" -> Undefined
         [] proto.t = "prototype" -> BuiltinGet(proto, key)
         [] OTHER ->
              IF key \in DOMAIN OwnFields(proto) THEN OwnFields(proto)[key]
              ELSE BuiltinGet(proto, key)

\* projects[key] = v, as the pair <<own', proto'>>: the __proto__ setter of
\* Object.prototype runs when it is inherited; it replaces the prototype by
\* an object or null and ignores every other value
Assign(own, proto, key, v) ==
  IF key = "__proto__" /\ key \notin DOMAIN own /\ proto.t # "null"
  THEN IF v.t \in {"object", "null"} THEN <<own, v>> ELSE <<own, proto>>
  ELSE <<[k \in (DOMAIN own) \cup {key} |-> IF k = key THEN v ELSE own[k]],
         proto>>

(***************************************************************************)
(* Inputs                                                                  *)
(***************************************************************************)
Absent == "-"
FieldsOf(c, i) ==
  Merge(IF c = Absent THEN NoFields ELSE [code |-> Str(c)],
        IF i = Absent THEN NoFields ELSE [ip |-> Str(i)])

\* the records of the decision table: every combination of code (absent,
\* "1", "2") and ip (absent, "", a country code), each under its own name
RecordTable ==
  << <<"r1", Absent, Absent>>, <<"r2", Absent, "">>, <<"r3", Absent, "FR">>,
     <<"r4", "1", Absent>>,    <<"r5", "1", "">>,    <<"r6", "1", "FR">>,
     <<"r7", "2", Absent>>,    <<"r8", "2", "">>,    <<"r9", "2", "FR">> >>
RecordKeys == {RecordTable[n][1] : n \in DOMAIN RecordTable}

VisibleRecord == Obj(FieldsOf("2", ""))
HiddenRecord == Obj(FieldsOf("1", Absent))
\* a record that carries a field named like a key
NestedBody == Obj([k1 |-> VisibleRecord])
\* a record that carries a packageName field of its own
RenamedBody == Obj([packageName |-> Str("k2"), code |-> Str("2")])

\* route parameters :key that requests probe whether or not a record is
\* stored under them; two name properties of Object.prototype
ProbeKeys == {"k1", "k2", "constructor", "__proto__"}
Keys == ProbeKeys \cup RecordKeys

\* POST /p/update/:key requests: records and JSON values that are not
\* objects under k1, the values the __proto__ setter accepts under __proto__
UpdateInputs ==
  ({"k1"} \X {VisibleRecord, HiddenRecord, RenamedBody, Null, Str("a")})
    \cup ({"__proto__"} \X {NestedBody, Null})

\* x-forwarded-for, already split at the commas; <<>> is the absent header
Headers == {<<>>, <<"">>, <<"ip1">>, <<"ip1", "ip2">>}

\* what the geolocation call produces: a countryCode, a response without
\* one, or a timeout / network error
Countries == {"BR", "FR"}
GeoOutcomes == Countries \cup {"malformed", "error"}

Unknown == "unknown"

\* contents of the collection when the process starts: nothing, or the
\* record table (each record with an opaque field of its own) and a document
\* named __proto__
Doc(pkg, f) == Merge(f, [packageName |-> Str(pkg)])
TableDocuments ==
  [n \in DOMAIN RecordTable |->
     Doc(RecordTable[n][1],
         Merge(FieldsOf(RecordTable[n][2], RecordTable[n][3]),
               [name |-> Str(RecordTable[n][1])]))]
InitCollections ==
  { <<>>, Append(TableDocuments, Doc("__proto__", NestedBody.f)) }

(***************************************************************************)
(* State                                                                   *)
(***************************************************************************)
VARIABLES
  pc,                 \* position of start(): "start", "connected", "listening";
                      \* then the server's: "closing", "closed"; "exit0"
  closed,             \* what has been closed so far, in order of completion
  mongoClient,        \* TRUE when the variable holds a client
  projectsCollection, \* TRUE when the variable holds the collection handle
  collection,         \* documents of projectsDB.projects, in natural order
  projects,           \* own properties of the cache object
  projectsProto,      \* prototype of the cache object
  tasks,              \* handlers suspended at an await
  nUpdates,           \* updates accepted so far
  stored,             \* history: key -> value last put under it (load, update)
  lastUpdate,         \* history: the update that has just been made, with
                      \* the value the cache held under its key before it
  resp                \* the response produced by the last step

vars == <<pc, closed, mongoClient, projectsCollection, collection, projects,
          projectsProto, tasks, nUpdates, stored, lastUpdate, resp>>

NoResp == [route |-> "none"]
NoUpdate ==
  [key |-> Absent, data |-> Undefined, was |-> Undefined, pending |-> FALSE]

Put(m, k, v) == [j \in (DOMAIN m) \cup {k} |-> IF j = k THEN v ELSE m[j]]
NoEntries == [k \in {} |-> Undefined]

(***************************************************************************)
(* The durable collection                                                  *)
(***************************************************************************)
\* positions of the documents that match the filter { packageName }
Matching(coll, packageName) ==
  {i \in 1..Len(coll) : /\ "packageName" \in DOMAIN coll[i]
                        /\ coll[i].packageName = Str(packageName)}

FirstOf(S) == CHOOSE i \in S : \A j \in S : i <= j

\* updateOne({ packageName }, { $set: { packageName, ...data } },
\*           { upsert: true })
updateOne(coll, packageName, data) ==
  LET set == Merge([packageName |-> Str(packageName)], Spread(data))
      hit == Matching(coll, packageName)
  IN  IF hit # {}
      THEN [coll EXCEPT ![FirstOf(hit)] = Merge(coll[FirstOf(hit)], set)]
      ELSE Append(coll, Merge([packageName |-> Str(packageName)], set))

\* the forEach of the start-up load, from document i on: the pair
\* <<own properties, prototype>> of the cache object
RECURSIVE LoadDocuments(_, _, _, _)
LoadDocuments(docs, i, own, proto) ==
  IF i > Len(docs) THEN <<own, proto>>
  ELSE LET doc == docs[i]
           packageName == GetProp(Obj(doc), "packageName")
           projectData == Obj(Without(doc, {"packageName", "_id"}))
           next == IF Truthy(packageName)
                   THEN Assign(own, proto, packageName.s, projectData)
                   ELSE <<own, proto>>
       IN  LoadDocuments(docs, i + 1, next[1], next[2])

\* history: the value last loaded under each packageName
RECURSIVE LoadedRecords(_, _, _)
LoadedRecords(docs, i, m) ==
  IF i > Len(docs) THEN m
  ELSE LET doc == docs[i]
           packageName == GetProp(Obj(doc), "packageName")
       IN  LoadedRecords(docs, i + 1,
             IF Truthy(packageName)
             THEN Put(m, packageName.s,
                      Obj(Without(doc, {"packageName", "_id"})))
             ELSE m)

(***************************************************************************)
(* Start-up                                                                *)
(***************************************************************************)
Init ==
  /\ pc = "start"
  /\ closed = <<>>
  /\ mongoClient = FALSE
  /\ projectsCollection = FALSE
  /\ collection \in InitCollections
  /\ projects = NoEntries
  /\ projectsProto = ObjectPrototype
  /\ tasks = {}
  /\ nUpdates = 0
  /\ stored = NoEntries
  /\ lastUpdate = NoUpdate
  /\ resp = NoResp

\* connectToMongoDB() runs to its `return true`
ConnectOk ==
  /\ pc = "start"
  /\ resp = NoResp
  /\ pc' = "connected"
  /\ mongoClient' = TRUE
  /\ projectsCollection' = TRUE
  /\ LET loaded == LoadDocuments(collection, 1, NoEntries, ObjectPrototype)
     IN  /\ projects' = loaded[1]
         /\ projectsProto' = loaded[2]
  /\ stored' = LoadedRecords(collection, 1, NoEntries)
  /\ resp' = NoResp
  /\ lastUpdate' = NoUpdate
  /\ UNCHANGED <<closed, collection, tasks, nUpdates>>

\* connectToMongoDB() ends in its catch: at `new MongoClient` (bad URI), at
\* connect(), or at find().toArray()
ConnectFail ==
  /\ pc = "start"
  /\ resp = NoResp
  /\ pc' = "connected"
  /\ \E at \in {"client", "connect", "find"} :
       /\ mongoClient' = (at # "client")
       /\ projectsCollection' = (at = "find")
  /\ resp' = NoResp
  /\ lastUpdate' = NoUpdate
  /\ UNCHANGED <<closed, collection, projects, projectsProto, tasks, nUpdates, stored>>

\* fastify.listen() succeeds
Listen ==
  /\ pc = "connected"
  /\ resp = NoResp
  /\ pc' = "listening"
  /\ resp' = NoResp
  /\ lastUpdate' = NoUpdate
  /\ UNCHANGED <<closed, mongoClient, projectsCollection, collection, projects,
                 projectsProto, tasks, nUpdates, stored>>

(***************************************************************************)
(* Geolocation                                                             *)
(***************************************************************************)
\* const requestIp = xForwardedFor ? xForwardedFor.split(",")[0].trim() : null
RequestIp(header) == IF header = <<>> THEN Null ELSE Str(header[1])

\* isIPFromBrazil with `return !!response.data.countryCode`: the comparison
\* with "BR" is lost
isIPFromBrazil_AnyCountry(ip, geo) ==
  IF ~Truthy(ip) THEN [called |-> FALSE, result |-> FALSE]
  ELSE [called |-> TRUE, result |-> (geo \in Countries)]

\* isIPFromBrazil whose catch block answers true: a failed lookup passes
isIPFromBrazil_FailOpen(ip, geo) ==
  IF ~Truthy(ip) THEN [called |-> FALSE, result |-> FALSE]
  ELSE CASE geo = "error" -> [called |-> TRUE, result |-> TRUE]
         [] geo = "malformed" -> [called |-> TRUE, result |-> FALSE]
         [] OTHER -> [called |-> TRUE, result |-> (geo = "BR")]

\* isIPFromBrazil(ip), given what the lookup produces when it is made
isIPFromBrazil(ip, geo) ==
  IF ~Truthy(ip) THEN [called |-> FALSE, result |-> FALSE]
  ELSE CASE geo = "error" -> [called |-> TRUE, result |-> FALSE]
         [] geo = "malformed" -> [called |-> TRUE, result |-> FALSE]
         [] OTHER -> [called |-> TRUE, result |-> (geo = "BR")]

\* isAccessibleRegion comparing with "BR", as isIPFromBrazil does
isAccessibleRegion_Brazil(ip, countryCode, geo) ==
  IF ~Truthy(ip) \/ ~Truthy(countryCode)
  THEN [called |-> FALSE, result |-> FALSE]
  ELSE [called |-> TRUE, result |-> (geo = "BR")]

\* isAccessibleRegion(ip, countryCode)
isAccessibleRegion(ip, countryCode, geo) ==
  IF ~Truthy(ip) \/ ~Truthy(countryCode)
  THEN [called |-> FALSE, result |-> FALSE]
  ELSE CASE geo = "error" -> [called |-> TRUE, result |-> FALSE]
         [] geo = "malformed" -> [called |-> TRUE, result |-> FALSE]
         [] OTHER -> [called |-> TRUE, result |-> (Str(geo) = countryCode)]

\* the country the lookup resolves for the request, "unknown" when there is
\* no client IP or the lookup fails
Resolved(ip, geo) ==
  IF ~Truthy(ip) \/ geo \notin Countries THEN Unknown ELSE geo

(***************************************************************************)
(* Route handlers, as functions of what they read                          *)
(***************************************************************************)
Reply(status, body, called) ==
  [status |-> status, body |-> body, called |-> called]

NotFoundBody == Obj([error |-> Str("Project not found")])
\* the framework's answer to a handler that throws
ServerErrorBody == Obj([error |-> Str("Internal Server Error")])

\* the gate written as a blacklist: projectData.code !== "1"
CodeGate_Blacklist(projectData) ==
  IF Truthy(projectData) /\ GetProp(projectData, "code") # Str("1")
  THEN Serialize(projectData)
  ELSE EmptyObject

\* if (projectData && projectData.code === "2") return projectData;
\* else return {};
CodeGate(projectData) ==
  IF Truthy(projectData) /\ GetProp(projectData, "code") = Str("2")
  THEN Serialize(projectData)
  ELSE EmptyObject

\* GET /pp/:key answering through the visibility gate of /br/:key
PpHandler_Gated(projectData) ==
  IF Truthy(projectData)
  THEN [status |-> 200,
        body |-> IF GetProp(projectData, "code") = Str("2")
                 THEN Serialize(projectData) ELSE EmptyObject,
        called |-> FALSE]
  ELSE [status |-> 404,
        body |-> Obj([error |-> Str("Project not found")]),
        called |-> FALSE]

\* GET /pp/:key
PpHandler(projectData) ==
  IF Truthy(projectData)
  THEN Reply(200, Serialize(projectData), FALSE)
  ELSE Reply(404, NotFoundBody, FALSE)

\* the ip branch without the test for the empty string: every ip value is
\* handed to isAccessibleRegion
BrIpBranch_NoEmptyCase(projectData, requestIp, geo) ==
  LET accessible ==
        isAccessibleRegion(requestIp, GetProp(projectData, "ip"), geo)
  IN  IF accessible.result
      THEN Reply(200, CodeGate(projectData), accessible.called)
      ELSE Reply(200, EmptyObject, accessible.called)

\* GET /br/:key, the branch of a record with an ip field
BrIpBranch(projectData, requestIp, geo) ==
  IF GetProp(projectData, "ip") = Str("")
  THEN Reply(200, CodeGate(projectData), FALSE)
  ELSE LET accessible ==
             isAccessibleRegion(requestIp, GetProp(projectData, "ip"), geo)
       IN  IF accessible.result
           THEN Reply(200, CodeGate(projectData), accessible.called)
           ELSE Reply(200, EmptyObject, accessible.called)

\* GET /br/:key, the branch of a record without an ip field
BrNoIpBranch(projectData, requestIp, geo) ==
  LET fromBrazil == isIPFromBrazil(requestIp, geo)
  IN  IF fromBrazil.result
      THEN Reply(200, CodeGate(projectData), fromBrazil.called)
      ELSE IF GetProp(projectData, "code") = Str("1")
           THEN Reply(200, EmptyObject, fromBrazil.called)
           ELSE Reply(200, EmptyObject, fromBrazil.called)

\* GET /br/:key
BrHandler(projectData, requestIp, geo) ==
  IF ~Truthy(projectData) THEN Reply(200, EmptyObject, FALSE)
  ELSE IF InThrows(projectData) THEN Reply(500, ServerErrorBody, FALSE)
  ELSE IF HasProp(projectData, "ip")
       THEN BrIpBranch(projectData, requestIp, geo)
       ELSE BrNoIpBranch(projectData, requestIp, geo)

\* whether the handler suspends at the geolocation call
BrAwaitsGeo(projectData, requestIp) ==
  BrHandler(projectData, requestIp, "error").called

(***************************************************************************)
(* Requests                                                                *)
(***************************************************************************)
UpdateTasks == {t \in tasks : t.kind = "update"}

\* the keys requests are made for: the probes and every name the cache holds
RequestKeys == ProbeKeys \cup DOMAIN projects

\* history: what the last load or update put under the key, if anything
StoredAt(key) == IF key \in DOMAIN stored THEN stored[key] ELSE Undefined

\* projects[key] in the copy of the service that differs only in never having
\* been given the own property `key`
TwinLookup(key) == Lookup(Without(projects, {key}), projectsProto, key)

BrResponse(key, projectData, requestIp, geo, had, rec, own, twinData) ==
  LET r == BrHandler(projectData, requestIp, geo)
      twin == BrHandler(twinData, requestIp, geo)
  IN  [route |-> "br", key |-> key, status |-> r.status, body |-> r.body,
       cur |-> projectData,
       called |-> r.called, hasIp |-> Truthy(requestIp),
       country |-> Resolved(requestIp, geo),
       had |-> had, rec |-> rec, own |-> own,
       twinStatus |-> twin.status, twinBody |-> twin.body]

\* JSON.stringify(projects): the own properties whose value has a JSON form
AllBody(own) ==
  Obj([k \in {j \in DOMAIN own : Serialize(own[j]) # Undefined} |->
         Serialize(own[k])])

\* no GET /br/:key is suspended at its geolocation call. The read handlers
\* write nothing and read nothing of a suspended request, so a read handled
\* during such a wait answers as the same read handled just before the wait
\* began: reads are modelled at that earlier moment only.
NoBrWaiting == \A t \in tasks : t.kind # "br"

\* GET /p/all: return projects
GetAll ==
  /\ pc = "listening"
  /\ resp = NoResp
  /\ NoBrWaiting
  /\ resp' = [route |-> "all", status |-> 200, body |-> AllBody(projects)]
  /\ lastUpdate' = NoUpdate
  /\ UNCHANGED <<closed, pc, mongoClient, projectsCollection, collection, projects,
                 projectsProto, tasks, nUpdates, stored>>

\* GET /pp/:key
GetPp ==
  /\ pc = "listening"
  /\ resp = NoResp
  /\ NoBrWaiting
  /\ \E key \in RequestKeys :
       LET r == PpHandler(Lookup(projects, projectsProto, key))
       IN  resp' = [route |-> "pp", key |-> key, status |-> r.status,
                    body |-> r.body,
                    cur |-> Lookup(projects, projectsProto, key),
                    had |-> key \in DOMAIN stored,
                    rec |-> StoredAt(key),
                    after |-> IF lastUpdate.pending THEN NoUpdate
                                                    ELSE lastUpdate]
  /\ lastUpdate' = NoUpdate
  /\ UNCHANGED <<closed, pc, mongoClient, projectsCollection, collection, projects,
                 projectsProto, tasks, nUpdates, stored>>

\* GET /br/:key on a path that makes no geolocation call: the handler runs to
\* its return in one step
BrDirect ==
  /\ pc = "listening"
  /\ resp = NoResp
  /\ NoBrWaiting
  /\ \E key \in RequestKeys, header \in Headers, geo \in GeoOutcomes :
       LET projectData == Lookup(projects, projectsProto, key)
           requestIp == RequestIp(header)
       IN  /\ ~BrAwaitsGeo(projectData, requestIp)
           /\ resp' = BrResponse(key, projectData, requestIp, geo,
                                 key \in DOMAIN stored, StoredAt(key),
                                 key \in DOMAIN projects, TwinLookup(key))
  /\ lastUpdate' = NoUpdate
  /\ UNCHANGED <<closed, pc, mongoClient, projectsCollection, collection, projects,
                 projectsProto, tasks, nUpdates, stored>>

\* GET /br/:key up to `await axios.get(...)`: projectData has been read.
\* These handlers write nothing, so two of them suspended together behave as
\* each does alone: one at a time is modelled.
BrStart ==
  /\ pc = "listening"
  /\ resp = NoResp
  /\ NoBrWaiting
  /\ \E key \in RequestKeys, header \in Headers :
       LET projectData == Lookup(projects, projectsProto, key)
           requestIp == RequestIp(header)
           task == [kind |-> "br", key |-> key, data |-> projectData,
                    ip |-> requestIp, had |-> key \in DOMAIN stored,
                    rec |-> StoredAt(key), own |-> key \in DOMAIN projects,
                    twinData |-> TwinLookup(key)]
       IN  /\ BrAwaitsGeo(projectData, requestIp)
           /\ tasks' = tasks \cup {task}
  /\ resp' = NoResp
  /\ lastUpdate' = NoUpdate
  /\ UNCHANGED <<closed, pc, mongoClient, projectsCollection, collection, projects,
                 projectsProto, nUpdates, stored>>

BrSnapshot_Reread(t) == Lookup(projects, projectsProto, t.key)

\* `const projectData = projects[key]` is bound before the await: after the
\* wait the handler uses the value it read, whatever the cache holds by then
BrSnapshot(t) == t.data

\* the geolocation call settles and the handler runs to its return
BrGeoDone ==
  /\ resp = NoResp
  /\ \E t \in tasks, geo \in GeoOutcomes :
       /\ t.kind = "br"
       /\ resp' = BrResponse(t.key, BrSnapshot(t), t.ip, geo, t.had, t.rec,
                             t.own, t.twinData)
       /\ tasks' = tasks \ {t}
  /\ lastUpdate' = NoUpdate
  /\ UNCHANGED <<closed, pc, mongoClient, projectsCollection, collection, projects,
                 projectsProto, nUpdates, stored>>

\* the answer of POST /p/update/:key; history: the request, whether the
\* durable write was made, and whether no other handler ran between the
\* request's arrival and its answer
UpdateResponse(key, data, saved, alone) ==
  [route |-> "update", key |-> key, status |-> 200, body |-> Str("{}"),
   data |-> data, saved |-> saved, alone |-> alone]

UpdateNoStore_Reconnects ==
  /\ pc = "listening"
  /\ resp = NoResp
  /\ ~projectsCollection
  /\ nUpdates < MaxUpdates
  /\ \E in \in UpdateInputs :
       LET key == in[1]
           data == in[2]
           assigned == Assign(projects, projectsProto, key, data)
       IN  /\ projects' = assigned[1]
           /\ projectsProto' = assigned[2]
           /\ stored' = Put(stored, key, data)
           /\ collection' = updateOne(collection, key, data)
           /\ resp' = UpdateResponse(key, data, TRUE, TRUE)
           /\ lastUpdate' = [key |-> key, data |-> data,
                             was |-> Lookup(projects, projectsProto, key),
                             pending |-> FALSE]
  /\ nUpdates' = nUpdates + 1
  /\ mongoClient' = TRUE
  /\ projectsCollection' = TRUE
  /\ UNCHANGED <<closed, pc, tasks>>

\* POST /p/update/:key while projectsCollection is null: saveProject returns
\* false without I/O and the handler answers
UpdateNoStore ==
  /\ pc = "listening"
  /\ resp = NoResp
  /\ ~projectsCollection
  /\ nUpdates < MaxUpdates
  /\ \E in \in UpdateInputs :
       LET key == in[1]
           data == in[2]
           assigned == Assign(projects, projectsProto, key, data)
       IN  /\ projects' = assigned[1]
           /\ projectsProto' = assigned[2]
           /\ stored' = Put(stored, key, data)
           /\ resp' = UpdateResponse(key, data, FALSE, TRUE)
           /\ lastUpdate' = [key |-> key, data |-> data,
                             was |-> Lookup(projects, projectsProto, key),
                             pending |-> FALSE]
  /\ nUpdates' = nUpdates + 1
  /\ UNCHANGED <<closed, pc, mongoClient, projectsCollection, collection, tasks>>

\* POST /p/update/:key up to `await projectsCollection.updateOne(...)`: the
\* cache has been written
UpdateStart ==
  /\ pc = "listening"
  /\ resp = NoResp
  /\ projectsCollection
  /\ nUpdates < MaxUpdates
  /\ Cardinality(UpdateTasks) < MaxTasks
  /\ \E in \in UpdateInputs :
       LET key == in[1]
           data == in[2]
           assigned == Assign(projects, projectsProto, key, data)
           task == [kind |-> "update", key |-> key, data |-> data]
       IN  /\ task \notin tasks
           /\ projects' = assigned[1]
           /\ projectsProto' = assigned[2]
           /\ stored' = Put(stored, key, data)
           /\ tasks' = tasks \cup {task}
           /\ lastUpdate' = [key |-> key, data |-> data,
                             was |-> Lookup(projects, projectsProto, key),
                             pending |-> TRUE]
  /\ nUpdates' = nUpdates + 1
  /\ resp' = NoResp
  /\ UNCHANGED <<closed, pc, mongoClient, projectsCollection, collection>>

\* updateOne settles (written, or rejected) and the handler answers
UpdateSaveDone ==
  /\ resp = NoResp
  /\ \E t \in tasks, ok \in BOOLEAN :
       /\ t.kind = "update"
       /\ collection' = IF ok THEN updateOne(collection, t.key, t.data)
                              ELSE collection
       /\ resp' = UpdateResponse(t.key, t.data, ok,
                                 /\ lastUpdate.pending
                                 /\ lastUpdate.key = t.key
                                 /\ lastUpdate.data = t.data)
       /\ tasks' = tasks \ {t}
  /\ lastUpdate' = IF lastUpdate.pending
                   THEN [lastUpdate EXCEPT !.pending = FALSE]
                   ELSE NoUpdate
  /\ UNCHANGED <<closed, pc, mongoClient, projectsCollection, projects, projectsProto,
                 nUpdates, stored>>

\* the reply of the handler that has just returned is written out; this
\* happens in the continuation of the handler's promise, before the event
\* loop runs another handler
Deliver ==
  /\ resp # NoResp
  /\ resp' = NoResp
  /\ UNCHANGED <<closed, pc, mongoClient, projectsCollection, collection, projects,
                 projectsProto, tasks, nUpdates, stored, lastUpdate>>

(***************************************************************************)
(* Shutdown: process.on('SIGINT' | 'SIGTERM', async () => { ... })         *)
(***************************************************************************)
Signals == {"SIGINT", "SIGTERM"}

SignalSteps_ClientFirst == <<"client", "server">>

\* what the handler awaits, in order: fastify.close(), mongoClient.close();
\* process.exit(0) follows the last
SignalSteps == <<"server", "client">>

SignalTasks == {t \in tasks : t.kind = "signal"}

\* `if (mongoClient)`: with no client the handler goes on without awaiting
RECURSIVE NextAwait(_)
NextAwait(i) ==
  IF i > Len(SignalSteps) THEN i
  ELSE IF SignalSteps[i] = "client" /\ ~mongoClient THEN NextAwait(i + 1)
  ELSE i

\* the handler of sig runs from statement i to its next await, where it is
\* suspended next to the handlers in others, or to process.exit(0), which
\* ends them all. Calling fastify.close() makes a listening server stop
\* accepting. The result is <<tasks, pc>>, server being the pc so far.
Continue(others, sig, i, server) ==
  LET j == NextAwait(i)
  IN  IF j > Len(SignalSteps) THEN <<{}, "exit0">>
      ELSE <<others \cup {[kind |-> "signal", sig |-> sig, at |-> j]},
             IF SignalSteps[j] = "server" /\ server = "listening"
             THEN "closing" ELSE server>>

\* a signal arrives at the listening process and its handler runs to its
\* first await; the handlers of the two signals can be suspended together
Signal ==
  /\ pc \in {"listening", "closing", "closed"}
  /\ resp = NoResp
  /\ \E sig \in Signals :
       /\ \A t \in SignalTasks : t.sig # sig
       /\ LET c == Continue(tasks, sig, 1, pc)
          IN  tasks' = c[1] /\ pc' = c[2]
  /\ resp' = NoResp
  /\ lastUpdate' = NoUpdate
  /\ UNCHANGED <<closed, mongoClient, projectsCollection, collection, projects,
                 projectsProto, nUpdates, stored>>

\* what a handler awaits settles and the handler goes on. fastify.close()
\* settles when the server has closed, which is when no request is being
\* handled; closing what is closed already changes nothing.
SignalStep ==
  /\ resp = NoResp
  /\ \E t \in SignalTasks :
       LET step == SignalSteps[t.at]
           c == Continue(tasks \ {t}, t.sig, t.at + 1,
                         IF step = "server" THEN "closed" ELSE pc)
       IN  /\ step = "server" => tasks = SignalTasks
           /\ closed' = IF \E n \in 1..Len(closed) : closed[n] = step
                         THEN closed ELSE Append(closed, step)
           /\ tasks' = c[1]
           /\ pc' = c[2]
  /\ resp' = NoResp
  /\ lastUpdate' = NoUpdate
  /\ UNCHANGED <<mongoClient, projectsCollection, collection, projects,
                 projectsProto, nUpdates, stored>>

Next ==
  \/ ConnectOk
  \/ ConnectFail
  \/ Listen
  \/ GetAll
  \/ GetPp
  \/ BrDirect
  \/ BrStart
  \/ BrGeoDone
  \/ UpdateNoStore
  \/ UpdateStart
  \/ UpdateSaveDone
  \/ Deliver

Spec == Init /\ [][Next]_vars

\* the service with its signal handlers. The handlers that answer without
\* an await (GET /p/all, GET /pp/:key, GET /br/:key without a lookup) leave
\* nothing in flight for a shutdown to wait for and are left out.
NextShutdown ==
  \/ ConnectOk
  \/ ConnectFail
  \/ Listen
  \/ BrStart
  \/ BrGeoDone
  \/ UpdateNoStore
  \/ UpdateStart
  \/ UpdateSaveDone
  \/ Deliver
  \/ Signal
  \/ SignalStep

SpecShutdown == Init /\ [][NextShutdown]_vars

(***************************************************************************)
(* The variant of src/routes/root.ts: the same cache and the same read     *)
(* handlers, a start-up that ends the process when the store cannot be     *)
(* reached, and an update that answers 500 when the write is not made.     *)
(* Its load, its listen, its read handlers and the part of its update      *)
(* handler before the await are the statements modelled above and share    *)
(* the actions ConnectOk, Listen, GetAll, GetPp, UpdateStart and Deliver.  *)
(***************************************************************************)
\* initMongoDB() ends in its catch: no usable connection string, connect(),
\* the ping or find().toArray() failed; process.exit(1)
InitMongoDBExit ==
  /\ pc = "start"
  /\ resp = NoResp
  /\ pc' = "exited"
  /\ \E at \in {"url", "connect", "ping", "find"} :
       /\ mongoClient' = (at # "url")
       /\ projectsCollection' = (at \in {"ping", "find"})
  /\ resp' = NoResp
  /\ lastUpdate' = NoUpdate
  /\ UNCHANGED <<closed, collection, projects, projectsProto, tasks, nUpdates, stored>>

FailedToSaveBody == Obj([error |-> Str("Failed to save project")])

\* if (success) reply.status(200).send("{}")
\* else reply.status(500).send({ error: "Failed to save project" })
RootUpdateResponse(key, data, saved, alone) ==
  [route |-> "update", key |-> key,
   status |-> IF saved THEN 200 ELSE 500,
   body |-> IF saved THEN Str("{}") ELSE FailedToSaveBody,
   data |-> data, saved |-> saved, alone |-> alone]

\* updateOne settles (written, or rejected) and the handler answers
RootUpdateSaveDone ==
  /\ resp = NoResp
  /\ \E t \in tasks, ok \in BOOLEAN :
       /\ t.kind = "update"
       /\ collection' = IF ok THEN updateOne(collection, t.key, t.data)
                              ELSE collection
       /\ resp' = RootUpdateResponse(t.key, t.data, ok,
                                     /\ lastUpdate.pending
                                     /\ lastUpdate.key = t.key
                                     /\ lastUpdate.data = t.data)
       /\ tasks' = tasks \ {t}
  /\ lastUpdate' = IF lastUpdate.pending
                   THEN [lastUpdate EXCEPT !.pending = FALSE]
                   ELSE NoUpdate
  /\ UNCHANGED <<closed, pc, mongoClient, projectsCollection, projects, projectsProto,
                 nUpdates, stored>>

NextRoot ==
  \/ ConnectOk
  \/ InitMongoDBExit
  \/ Listen
  \/ GetAll
  \/ GetPp
  \/ UpdateStart
  \/ RootUpdateSaveDone
  \/ Deliver

SpecRoot == Init /\ [][NextRoot]_vars

(***************************************************************************)
(* The store-only variant (part_000, first file): no cache; every read     *)
(* handler queries the collection and every update writes only to it.      *)
(* The variables projects, projectsProto, stored and lastUpdate are not    *)
(* used.                                                                   *)
(***************************************************************************)
\* connectToMongoDB() runs to its `return true`; nothing is loaded
StoreConnectOk ==
  /\ pc = "start"
  /\ resp = NoResp
  /\ pc' = "connected"
  /\ mongoClient' = TRUE
  /\ projectsCollection' = TRUE
  /\ UNCHANGED <<closed, collection, projects, projectsProto, tasks, nUpdates, stored,
                 lastUpdate, resp>>

\* connectToMongoDB() ends in its catch: at `new MongoClient`, at connect(),
\* or at the ping, which comes after projectsCollection is assigned
StoreConnectFail ==
  /\ pc = "start"
  /\ resp = NoResp
  /\ pc' = "connected"
  /\ \E at \in {"client", "connect", "ping"} :
       /\ mongoClient' = (at # "client")
       /\ projectsCollection' = (at = "ping")
  /\ UNCHANGED <<closed, collection, projects, projectsProto, tasks, nUpdates, stored,
                 lastUpdate, resp>>

\* the packageName values the collection holds
StoredNames(coll) ==
  {coll[i].packageName.s :
     i \in {j \in 1..Len(coll) : /\ "packageName" \in DOMAIN coll[j]
                                  /\ coll[j].packageName.t = "string"}}

StoreRequestKeys == ProbeKeys \cup StoredNames(collection)

\* getProject(packageName), given whether findOne answers: null when the
\* collection is missing, when findOne rejects and when no document matches;
\* otherwise the first matching document without _id
getProject(coll, hasCollection, packageName, ok) ==
  IF ~hasCollection \/ ~ok \/ Matching(coll, packageName) = {} THEN Null
  ELSE Obj(Without(coll[FirstOf(Matching(coll, packageName))], {"_id"}))

\* getAllProjects(), given whether find().toArray() answers
getAllProjects(coll, hasCollection, ok) ==
  IF ~hasCollection \/ ~ok THEN EmptyObject
  ELSE AllBody(LoadDocuments(coll, 1, NoEntries, ObjectPrototype)[1])

\* the answer of a read handler; history: whether the collection holds a
\* document of the key at that moment, and whether the store answered
StoreResponse(route, key, r, coll, answered) ==
  [route |-> route, key |-> key, status |-> r.status, body |-> r.body,
   exists |-> Matching(coll, key) # {}, answered |-> answered]

ReadTasks == {t \in tasks : t.kind \in {"find", "geo"}}

\* GET /p/all up to `await projectsCollection.find({}).toArray()`, or to its
\* return when there is no collection
StoreGetAll ==
  /\ pc = "listening"
  /\ resp = NoResp
  /\ ReadTasks = {}
  /\ IF projectsCollection
     THEN /\ tasks' = tasks \cup {[kind |-> "find", route |-> "all",
                                    key |-> Absent, ip |-> Null]}
          /\ resp' = NoResp
     ELSE /\ resp' = StoreResponse("all", Absent,
                        Reply(200, getAllProjects(collection, FALSE, FALSE),
                              FALSE),
                        collection, FALSE)
          /\ tasks' = tasks
  /\ UNCHANGED <<closed, pc, mongoClient, projectsCollection, collection, projects,
                 projectsProto, nUpdates, stored, lastUpdate>>

\* GET /pp/:key up to `await projectsCollection.findOne(...)`, or to its
\* answer when there is no collection
StoreGetPp ==
  /\ pc = "listening"
  /\ resp = NoResp
  /\ ReadTasks = {}
  /\ \E key \in StoreRequestKeys :
       IF projectsCollection
       THEN /\ tasks' = tasks \cup {[kind |-> "find", route |-> "pp",
                                      key |-> key, ip |-> Null]}
            /\ resp' = NoResp
       ELSE /\ resp' = StoreResponse("pp", key,
                          PpHandler(getProject(collection, FALSE, key, FALSE)),
                          collection, FALSE)
            /\ tasks' = tasks
  /\ UNCHANGED <<closed, pc, mongoClient, projectsCollection, collection, projects,
                 projectsProto, nUpdates, stored, lastUpdate>>

\* GET /br/:key up to `await projectsCollection.findOne(...)`, or to its
\* return {} when there is no collection
StoreGetBr ==
  /\ pc = "listening"
  /\ resp = NoResp
  /\ ReadTasks = {}
  /\ \E key \in StoreRequestKeys, header \in Headers :
       IF projectsCollection
       THEN /\ tasks' = tasks \cup {[kind |-> "find", route |-> "br",
                                      key |-> key, ip |-> RequestIp(header)]}
            /\ resp' = NoResp
       ELSE /\ resp' = StoreResponse("br", key,
                          BrHandler(getProject(collection, FALSE, key, FALSE),
                                    RequestIp(header), "error"),
                          collection, FALSE)
            /\ tasks' = tasks
  /\ UNCHANGED <<closed, pc, mongoClient, projectsCollection, collection, projects,
                 projectsProto, nUpdates, stored, lastUpdate>>

\* find / findOne settles (answered, or rejected) and the handler runs on:
\* /p/all and /pp/:key answer, /br/:key answers or goes on to the
\* geolocation call
StoreFindDone ==
  /\ resp = NoResp
  /\ \E t \in tasks, ok \in BOOLEAN :
       /\ t.kind = "find"
       /\ LET projectData == getProject(collection, TRUE, t.key, ok)
          IN  CASE t.route = "all" ->
                     /\ resp' = StoreResponse("all", Absent,
                                   Reply(200,
                                         getAllProjects(collection, TRUE, ok),
                                         FALSE),
                                   collection, ok)
                     /\ tasks' = tasks \ {t}
                [] t.route = "pp" ->
                     /\ resp' = StoreResponse("pp", t.key,
                                   PpHandler(projectData), collection, ok)
                     /\ tasks' = tasks \ {t}
                [] t.route = "br" ->
                     IF BrAwaitsGeo(projectData, t.ip)
                     THEN /\ tasks' = (tasks \ {t}) \cup
                                 {[kind |-> "geo", route |-> "br",
                                   key |-> t.key, ip |-> t.ip,
                                   data |-> projectData, answered |-> ok]}
                          /\ resp' = NoResp
                     ELSE /\ resp' = StoreResponse("br", t.key,
                                        BrHandler(projectData, t.ip, "error"),
                                        collection, ok)
                          /\ tasks' = tasks \ {t}
  /\ UNCHANGED <<closed, pc, mongoClient, projectsCollection, collection, projects,
                 projectsProto, nUpdates, stored, lastUpdate>>

\* the geolocation call of GET /br/:key settles and the handler returns
StoreGeoDone ==
  /\ resp = NoResp
  /\ \E t \in tasks, geo \in GeoOutcomes :
       /\ t.kind = "geo"
       /\ resp' = StoreResponse("br", t.key, BrHandler(t.data, t.ip, geo),
                                collection, t.answered)
       /\ tasks' = tasks \ {t}
  /\ UNCHANGED <<closed, pc, mongoClient, projectsCollection, collection, projects,
                 projectsProto, nUpdates, stored, lastUpdate>>

\* POST /p/update/:key up to `await projectsCollection.updateOne(...)`, or
\* to its answer when there is no collection
StoreUpdate ==
  /\ pc = "listening"
  /\ resp = NoResp
  /\ nUpdates < MaxUpdates
  /\ \E in \in UpdateInputs :
       LET task == [kind |-> "update", key |-> in[1], data |-> in[2]]
       IN  IF projectsCollection
           THEN /\ Cardinality(UpdateTasks) < MaxTasks
                /\ task \notin tasks
                /\ tasks' = tasks \cup {task}
                /\ resp' = NoResp
           ELSE /\ resp' = UpdateResponse(in[1], in[2], FALSE, TRUE)
                /\ tasks' = tasks
  /\ nUpdates' = nUpdates + 1
  /\ UNCHANGED <<closed, pc, mongoClient, projectsCollection, collection, projects,
                 projectsProto, stored, lastUpdate>>

\* updateOne settles (written, or rejected) and the handler answers 200
StoreUpdateDone ==
  /\ resp = NoResp
  /\ \E t \in tasks, ok \in BOOLEAN :
       /\ t.kind = "update"
       /\ collection' = IF ok THEN updateOne(collection, t.key, t.data)
                              ELSE collection
       /\ resp' = UpdateResponse(t.key, t.data, ok, tasks = {t})
       /\ tasks' = tasks \ {t}
  /\ UNCHANGED <<closed, pc, mongoClient, projectsCollection, projects, projectsProto,
                 nUpdates, stored, lastUpdate>>

NextStore ==
  \/ StoreConnectOk
  \/ StoreConnectFail
  \/ Listen
  \/ StoreGetAll
  \/ StoreGetPp
  \/ StoreGetBr
  \/ StoreFindDone
  \/ StoreGeoDone
  \/ StoreUpdate
  \/ StoreUpdateDone
  \/ Deliver

SpecStore == Init /\ [][NextStore]_vars

(***************************************************************************)
(* Properties                                                              *)
(***************************************************************************)
\* a GET /br/:key has just been answered for a key under which the last load
\* or update put a JSON object
BrOfRecord == resp.route = "br" /\ resp.had /\ resp.rec.t = "object"

CodeIs2(rec) == GetProp(rec, "code") = Str("2")

\* C1: for a stored record without an ip field and with code "2", GET /br/:key
\* returns the record exactly when the country resolved for the request is
\* "BR", and {} for every other resolved country, unknown included.
C1_BrazilGate ==
  (BrOfRecord /\ ~HasProp(resp.rec, "ip") /\ CodeIs2(resp.rec)) =>
    /\ resp.status = 200
    /\ (resp.body = resp.rec) <=> (resp.country = "BR")
    /\ (resp.country # "BR") => (resp.body = EmptyObject)

C1_Witness ==
  /\ BrOfRecord /\ ~HasProp(resp.rec, "ip") /\ CodeIs2(resp.rec)
  /\ resp.country = "BR"
  /\ resp.body = resp.rec

\* C2: for a stored record whose ip field is the empty string, GET /br/:key
\* returns the record exactly when its code is "2", whatever country is
\* resolved and also without a client IP or with a failed lookup.
C2_EmptyIpGate ==
  (BrOfRecord /\ GetProp(resp.rec, "ip") = Str("")) =>
    /\ resp.status = 200
    /\ (resp.body = resp.rec) <=> CodeIs2(resp.rec)
    /\ ~CodeIs2(resp.rec) => (resp.body = EmptyObject)

C2_Witness ==
  /\ BrOfRecord /\ GetProp(resp.rec, "ip") = Str("")
  /\ CodeIs2(resp.rec)
  /\ ~resp.hasIp /\ resp.country = Unknown
  /\ resp.body = resp.rec

\* C3: for a stored record whose ip field is a non-empty country code C,
\* GET /br/:key returns the record exactly when the resolved country is C and
\* the code is "2", and {} otherwise.
C3_CountryGate ==
  (BrOfRecord /\ HasProp(resp.rec, "ip") /\ GetProp(resp.rec, "ip") # Str("")) =>
    LET match == Str(resp.country) = GetProp(resp.rec, "ip") /\ CodeIs2(resp.rec)
    IN  /\ resp.status = 200
        /\ (resp.body = resp.rec) <=> match
        /\ ~match => (resp.body = EmptyObject)

C3_Witness ==
  /\ BrOfRecord /\ GetProp(resp.rec, "ip") = Str("FR")
  /\ CodeIs2(resp.rec)
  /\ resp.country = "FR"
  /\ resp.body = resp.rec

\* C4: GET /br/:key never returns the body of a record whose code is not "2"
\* (a record without a code field included), whatever its ip field and
\* whatever country is resolved.
C4_HiddenNeverExposed ==
  (BrOfRecord /\ ~CodeIs2(resp.rec)) => (resp.body # resp.rec)

C4_Witness ==
  /\ BrOfRecord /\ ~HasProp(resp.rec, "code")
  /\ GetProp(resp.rec, "ip") = Str("FR")
  /\ resp.country = "FR"
  /\ resp.body = EmptyObject

\* C5: GET /br/:key answers every request with HTTP 200 and a body that is
\* either the stored value or {}, whatever JSON value POST /p/update/:key put
\* under the key.
C5_BrAlways200 ==
  (resp.route = "br") =>
    /\ resp.status = 200
    /\ resp.body = EmptyObject \/ (resp.had /\ resp.body = resp.rec)

\* C6: for a key under which nothing has been stored, GET /br/:key answers
\* HTTP 200 with body {}.
C6_BrAbsentKeyEmpty ==
  (resp.route = "br" /\ ~resp.had) =>
    (resp.status = 200 /\ resp.body = EmptyObject)

\* the decision table of the visibility rules
TableExposes(rec, country) ==
  /\ CodeIs2(rec)
  /\ IF ~HasProp(rec, "ip") THEN country = "BR"
     ELSE IF GetProp(rec, "ip") = Str("") THEN TRUE
     ELSE Str(country) = GetProp(rec, "ip")

\* C7: two copies of the service that differ only in that key k holds no
\* record in one and a record the visibility rules deny in the other answer
\* the same GET /br/k with the same status and the same body.
C7_AbsenceLikeDenial ==
  (BrOfRecord /\ resp.own /\ ~TableExposes(resp.rec, resp.country)) =>
    (resp.status = resp.twinStatus /\ resp.body = resp.twinBody)

\* C8: for a key that was neither loaded at start-up nor written by an
\* update, GET /pp/:key answers HTTP 404 with {"error":"Project not found"}.
C8_PpUnknownKey404 ==
  (resp.route = "pp" /\ ~resp.had) =>
    (resp.status = 404 /\ resp.body = NotFoundBody)

ContainsFields(body, B) ==
  \/ body = B
  \/ \A n \in DOMAIN Spread(B) :
       n \in DOMAIN OwnFields(body) /\ OwnFields(body)[n] = Spread(B)[n]

\* C10: POST /p/update/:key with body B followed immediately by GET /pp/:key
\* answers HTTP 200 with a record that carries every field of B, whether or
\* not the durable write succeeded.
C10_UpdateThenGet ==
  (resp.route = "pp" /\ resp.after.key = resp.key) =>
    (resp.status = 200 /\ ContainsFields(resp.body, resp.after.data))

\* C11: issuing POST /p/update/:key with body B a second time leaves the
\* cache object and the durable collection as the first request left them.
C11_UpdateIdempotent ==
  (resp.route = "update" /\ resp.alone) =>
    /\ Assign(projects, projectsProto, resp.key, resp.data)
         = <<projects, projectsProto>>
    /\ resp.saved => updateOne(collection, resp.key, resp.data) = collection

\* what a restart would load: the cache object connectToMongoDB builds from
\* the collection as it is now
Reloaded == LoadDocuments(collection, 1, NoEntries, ObjectPrototype)

\* two values a handler cannot tell apart when it reads them from the cache
SameRead(a, b) == a = b \/ (~Truthy(a) /\ ~Truthy(b))

\* C13: a GET /pp/:key, GET /br/:key or GET /p/all handled after an update
\* of a key has written the cache observes the value of that update, also
\* while the durable write is in flight and after it has failed.
C13_ReadsObserveUpdate ==
  /\ (resp.route \in {"pp", "br"} /\ resp.had) => SameRead(resp.cur, resp.rec)
  /\ (resp.route = "all") =>
       \A key \in DOMAIN stored :
         Serialize(stored[key]) # Undefined =>
           /\ key \in DOMAIN resp.body.f
           /\ resp.body.f[key] = Serialize(stored[key])

\* C14: when no update is in flight, the cache holds for a key the record of
\* the write last committed to the collection for it, whatever the order in
\* which concurrent updates of the key were answered.
C14_CacheIsLastCommitted ==
  (resp.route = "update" /\ resp.saved /\ UpdateTasks = {}
     /\ resp.data.t = "object") =>
    Lookup(projects, projectsProto, resp.key) = resp.data

\* a request body that is a record: a JSON object without a packageName
IsRecordBody(data) == data.t = "object" /\ "packageName" \notin DOMAIN data.f

\* C15: after POST /p/update/:key with a record B on a key that held a
\* record A has been saved, the document of the key holds no field but B's
\* and packageName, and a restart would load the record the cache holds.
C15_WholesaleReplace ==
  (resp.route = "update" /\ resp.saved /\ resp.alone
     /\ IsRecordBody(lastUpdate.was) /\ IsRecordBody(resp.data)) =>
    /\ \A i \in Matching(collection, resp.key) :
         DOMAIN collection[i] \subseteq
           (DOMAIN resp.data.f) \cup {"packageName"}
    /\ Lookup(Reloaded[1], Reloaded[2], resp.key)
         = Lookup(projects, projectsProto, resp.key)

\* C16: the collection holds at most one document per packageName, and the
\* document a saved POST /p/update/:key wrote carries packageName = :key.
C16_PackageNameIdentity ==
  /\ \A i, j \in 1..Len(collection) :
       ("packageName" \in DOMAIN collection[i]
          /\ "packageName" \in DOMAIN collection[j]
          /\ collection[i].packageName = collection[j].packageName) => i = j
  /\ (resp.route = "update" /\ resp.saved) =>
       Matching(collection, resp.key) # {}

\* C17: a GET /br/:key whose geolocation lookup times out, fails or answers
\* without countryCode is answered HTTP 200 with {}, in the branch of a
\* record without ip field and in the branch of a record with a country.
C17_GeoFailureDenies ==
  (resp.route = "br" /\ resp.called /\ resp.country = Unknown) =>
    (resp.status = 200 /\ resp.body = EmptyObject)

C17_Witness ==
  /\ BrOfRecord /\ resp.called /\ resp.country = Unknown
  /\ CodeIs2(resp.rec) /\ ~HasProp(resp.rec, "ip")
  /\ resp.status = 200 /\ resp.body = EmptyObject

\* C20: after a start-up load, GET /p/all answers HTTP 200 with a mapping
\* that has the entry packageName -> record for every document the
\* collection holds.
C20_AllListsEveryRecord ==
  (resp.route = "all" /\ "r1" \in DOMAIN projects) =>
    /\ resp.status = 200
    /\ \A i \in 1..Len(collection) :
         LET packageName == GetProp(Obj(collection[i]), "packageName")
         IN  Truthy(packageName) =>
               /\ packageName.s \in DOMAIN resp.body.f
               /\ resp.body.f[packageName.s]
                    = Obj(Without(collection[i], {"packageName", "_id"}))

\* C12: POST /p/update/:key is answered HTTP 200 with the body {}, also when
\* the durable write failed or the store was never connected.
C12_UpdateAlways200 ==
  (resp.route = "update") => (resp.status = 200 /\ resp.body = Str("{}"))

\* C19: a failure to connect to the store or to load the records at
\* start-up does not end the process.
C19_ConnectFailureNotFatal == pc # "exited"

\* C18: when the store is unavailable (no collection, or a read that fails)
\* no read endpoint answers with a 5xx status, and GET /pp/:key answers 4xx
\* only for a key of which the collection holds no document.
C18_ReadsHideStoreFailure ==
  (resp.route \in {"all", "pp", "br"}) =>
    /\ resp.status < 500
    /\ (resp.route = "pp" /\ resp.status >= 400) => ~resp.exists

\* C22: GET /br/:key calls the geolocation service only for a key under
\* which a record is stored, whose ip field is absent or not "", and for a
\* request that carries a client IP.
C22_GeoOnlyForRecord ==
  (resp.route = "br" /\ resp.called) =>
    /\ resp.had /\ Truthy(resp.rec)
    /\ ~HasProp(resp.rec, "ip") \/ GetProp(resp.rec, "ip") # Str("")
    /\ resp.hasIp

\* C23: a GET /br/:key of a key under which a record is stored answers from
\* the record it read before its geolocation wait, also when updates of the
\* key are handled during the wait: a body other than {} is that whole
\* record, which has code "2" and is exposed by its own ip rule for the
\* country the lookup resolved.
C23_BrAnswersFromSnapshot ==
  (BrOfRecord /\ resp.body # EmptyObject) =>
    /\ resp.status = 200
    /\ resp.body = resp.rec
    /\ CodeIs2(resp.rec)
    /\ TableExposes(resp.rec, resp.country)

\* a record returned after the key was given another record during the wait
C23_Witness ==
  /\ BrOfRecord /\ resp.called
  /\ resp.body = resp.rec /\ resp.body # EmptyObject
  /\ StoredAt(resp.key) # resp.rec

\* C24: projectsCollection is assigned during start-up only; when start-up
\* ended without it (the client could not be made or connect() failed), no
\* later step assigns it or changes the collection, and every
\* POST /p/update/:key writes the cache and is answered HTTP 200, so a
\* restart loads the collection as it was before the run.
C24_NoReconnect ==
  [][(pc # "start") =>
       /\ projectsCollection' = projectsCollection
       /\ ~projectsCollection =>
            /\ collection' = collection
            /\ (resp'.route = "update" /\ resp' # resp) =>
                 /\ resp'.status = 200 /\ ~resp'.saved
                 /\ resp'.key # "__proto__" =>
                      Lookup(projects', projectsProto', resp'.key)
                        = resp'.data]_vars

\* after a failed connection, the update budget of the run was spent on
\* records that the cache serves and the collection does not hold
C24_Witness ==
  /\ ~projectsCollection /\ pc = "listening"
  /\ resp.route = "update" /\ resp.status = 200 /\ resp.key = "k1"
  /\ IsRecordBody(resp.data)
  /\ Lookup(projects, projectsProto, "k1") = resp.data
  /\ Matching(collection, "k1") = {}
  /\ Lookup(Reloaded[1], Reloaded[2], "k1") = Undefined

\* C21: after a signal the server closes first, then the store client if
\* one was created, then the process exits with status 0: the client is
\* never closed while the server has not closed, and the process has exited
\* only after both.
C21_ShutdownOrder ==
  /\ closed \in {<<>>, <<"server">>, <<"server", "client">>}
  /\ closed # <<>> => pc \in {"closed", "exit0"}
  /\ ~mongoClient => closed # <<"server", "client">>
  /\ pc = "exit0" =>
       closed = IF mongoClient THEN <<"server", "client">> ELSE <<"server">>

\* an exit of a process that created a client and handled an update
C21_Witness ==
  /\ pc = "exit0"
  /\ closed = <<"server", "client">>
  /\ resp = NoResp
  /\ nUpdates > 0

====
